---- MODULE Spec2Model ----
(***************************************************************************)
(* State-machine model of the blog listing page of alert-client            *)
(* (src/src/app/blog/page.tsx): ApiService.fetchWithRetry, the response     *)
(* cache of ApiService, and the handlers of the Blog component.            *)
(*                                                                         *)
(* Six specifications share this module.                                   *)
(*   SpecRetry  one call of ApiService.fetchWithRetry against a real-time   *)
(*              clock.  Time is counted in seconds (the source counts       *)
(*              milliseconds: 15000 ms = 15 s, Math.pow(2, k) * 1000 ms =   *)
(*              2^k s).  Timers fire exactly when they are due.             *)
(*   Spec       the Blog component with its handlers, the cache and the     *)
(*              remote server.  One step is one macrotask of the page: a     *)
(*              handler runs from the event that resumes it to its next     *)
(*              suspension, the effects of the render it causes included.   *)
(*              Time is counted in minutes (Date.now() / 60000).            *)
(*   SpecCache  getCachedData, setCachedData and cache.delete applied to    *)
(*              the cache on their own, against a clock in minutes.         *)
(*   SpecFilter the dashboard over lists of articles that differ in title,  *)
(*              excerpt, tags and status: the list is loaded and the user   *)
(*              changes the search text, the category and the status.       *)
(*   SpecDerive the list load over articles that differ in body, tags and   *)
(*              published_at, for the fields ApiService.fetchPosts derives. *)
(*   SpecLive   Spec with a user who starts few operations, a server that   *)
(*              answers every request and weak fairness of the first        *)
(*              effect and of the pending requests and timers.              *)
(***************************************************************************)
EXTENDS Integers, Sequences, FiniteSets, Bags, TLC

\* ------------------------------------------------------------------------
\* Bounds of the model
\* ------------------------------------------------------------------------
\* largest maxRetries argument tried for fetchWithRetry
MaxRetriesArg == 3
\* last second of the real-time clock of SpecRetry
MaxTime == 18
\* largest article identifier the server hands out
MaxId == 2
\* number of network operations the user starts (retry, edit, delete, save,
\* publish)
MaxOps == 2
\* number of times the wall clock of Spec advances
MaxTicks == 1
\* number of attempts the server or the network makes fail
MaxFaults == 3
\* number of handler invocations suspended at once when the user starts
\* another one
MaxInFlight == 2
\* last minute of the clock of SpecCache
MaxAge == 6
\* SpecFilter: largest number of articles the server holds
MaxPosts == 2
\* SpecLive: number of network operations the user starts
MaxLiveOps == 1

\* ------------------------------------------------------------------------
\* Program constants
\* ------------------------------------------------------------------------
\* setTimeout(() => controller.abort(), 15000), in seconds
TIMEOUT == 15

\* maxRetries = 3, the default every caller of fetchWithRetry relies on
DEFAULT_MAX_RETRIES == 3
\* CACHE_DURATION = 5 * 60 * 1000 ms, in minutes
CACHE_DURATION == 5

\* HTTP statuses the mocked server answers with
Statuses == {200, 404, 500}
\* statuses with which the server refuses a request of the page
ErrorStatuses == {404, 500}
\* article identifiers
Ids == 1..MaxId
\* no identifier (undefined / null)
NoId == 0

VARIABLES
    \* ---- fetchWithRetry (SpecRetry) ----
    pc,          \* position of the call: idle, fetching, backoff, returned, thrown
    maxRetries,  \* the maxRetries argument
    attempt,     \* the loop variable
    timerArmed,  \* timeoutId is pending (set, neither fired nor cleared)
    aborted,     \* controller.signal.aborted
    now,         \* seconds since the call started
    wakeAt,      \* time at which the pending backoff timer is due
    result,      \* what the call returned or threw
    calls,       \* number of fetch() calls made
    history,     \* outcome of every finished attempt, in order
    waits,       \* delay requested by every backoff setTimeout, in order
    slept,       \* time actually spent in every finished backoff, in order
    \* ---- remote server ----
    server,      \* identifiers of the articles the server holds
    nextId,      \* identifier the server gives to the next created article
    \* ---- ApiService ----
    cache,       \* ApiService.cache: key -> [data, timestamp]
    clock,       \* Date.now(), in minutes
    \* ---- Blog component ----
    mounted,     \* the component is mounted and its effect has run
    unmounted,   \* the component was unmounted: the effect's cleanup has run
    posts,       \* useState: list of article identifiers, in list order
    loading,     \* useState
    error,       \* useState: message or NoError
    retrying,    \* useState
    currentView, \* useState: dashboard or editor
    editingPost, \* useState: identifier of the post in the editor, or NoId
    tasks,       \* bag of suspended handler invocations
    \* ---- history ----
    ops,         \* number of network operations the user has started
    faults,      \* number of attempts that were made to fail
    confirmedDeleted, \* identifiers whose DELETE was confirmed to the page
    failure,     \* message of the last failed operation since the last user action
    resync,      \* how the last failed delete re-ran loadAll: none, requested, cached
    autoRetries, \* number of loads started by the 2 s timer of initialFetch
    confirmedSaved, \* identifiers whose save or publish was confirmed to the page
    \* ---- ApiService.cache on its own (SpecCache) ----
    written,     \* per key: what the last set or delete of the key left
    lastOp,      \* the last cache operation and what it returned
    \* ---- the articles and the filters of the dashboard ----
    catalog,        \* per identifier: the article as the server returns it
    searchQuery,    \* useState("")
    categoryFilter, \* useState("all")
    statusFilter    \* useState("all")

viewVars == <<server, nextId, cache, clock, mounted, unmounted, posts, loading, error,
              retrying, currentView, editingPost, tasks, ops, faults,
              confirmedDeleted, failure, resync, autoRetries, confirmedSaved,
              written, lastOp,
              catalog, searchQuery, categoryFilter, statusFilter>>

retryVars == <<pc, maxRetries, attempt, timerArmed, aborted, now, wakeAt,
               result, calls, history, waits, slept>>

vars == <<pc, maxRetries, attempt, timerArmed, aborted, now, wakeAt,
          result, calls, history, waits, slept,
          server, nextId, cache, clock, mounted, unmounted, posts, loading, error,
          retrying, currentView, editingPost, tasks, ops, faults,
          confirmedDeleted, failure, resync, autoRetries, confirmedSaved,
          written, lastOp,
          catalog, searchQuery, categoryFilter, statusFilter>>

\* what the cache specification records
cacheHist == <<written, lastOp>>

\* the articles of the server and the filters of the dashboard
filterVars == <<catalog, searchQuery, categoryFilter, statusFilter>>

\* ------------------------------------------------------------------------
\* Outcomes of an attempt and of the call
\* ------------------------------------------------------------------------
NoResult == [kind |-> "none", status |-> 0]
\* a Response object with the given status
Response(s) == [kind |-> "Response", status |-> s]
\* new Error(`HTTP ${response.status}: ${response.statusText}`)
HttpError(s) == [kind |-> "HttpError", status |-> s]
\* the TypeError fetch() rejects with on a transport failure
NetworkFailure == [kind |-> "NetworkFailure", status |-> 0]
\* the DOMException named AbortError fetch() rejects with after abort()
AbortError == [kind |-> "AbortError", status |-> 0]
\* new Error('Max retries exceeded')
MaxRetriesExceeded == [kind |-> "MaxRetriesExceeded", status |-> 0]

\* response.ok
ResponseOk(s) == s >= 200 /\ s <= 299

\* line 94, a response that is not ok is turned into a thrown HttpError
ThrowOnResponse_NoLastAttempt(k, m, s) == s < 500
ThrowOnResponse(k, m, s) == k = m \/ s < 500

\* lines 104-111, the catch block rethrows instead of backing off
CatchRethrows_NoAbortCheck(k, m, err) == k = m
CatchRethrows_NoLastAttempt(k, m, err) == err.kind = "AbortError"
CatchRethrows_Always(k, m, err) == TRUE
CatchRethrows(k, m, err) == k = m \/ err.kind = "AbortError"

\* Math.pow(2, attempt) * 1000 ms, in seconds
Backoff_NoGrowth(k) == 2
Backoff(k) == 2 ^ k

\* ------------------------------------------------------------------------
\* fetchWithRetry, one step per macrotask
\* ------------------------------------------------------------------------
\* await new Promise(resolve => setTimeout(resolve, Backoff(attempt)))
StartBackoff ==
    /\ pc' = "backoff"
    /\ wakeAt' = now + Backoff(attempt)
    /\ waits' = Append(waits, Backoff(attempt))
    /\ UNCHANGED <<result, attempt, calls, slept>>

\* throw out of the for loop: the outer catch clears the timer and rethrows
ThrowOut(err) ==
    /\ pc' = "thrown"
    /\ result' = err
    /\ UNCHANGED <<wakeAt, waits, attempt, calls, slept>>

\* the inner catch block (lines 101-115) run on err; it clears the timer
Catch(err) ==
    IF CatchRethrows(attempt, maxRetries, err)
    THEN ThrowOut(err)
    ELSE StartBackoff

\* head of the for loop with loop variable k and bound m: call fetch or
\* leave the loop
LoopHead(k, m) ==
    IF k <= m
    THEN /\ pc' = "fetching"
         /\ attempt' = k
         /\ calls' = calls + 1
         /\ result' = NoResult
    ELSE /\ pc' = "thrown"
         /\ attempt' = k
         /\ calls' = calls
         /\ result' = MaxRetriesExceeded

\* fetchWithRetry(url, options, m) is called: controller and timer are set
\* up and the loop is entered
Call(m) ==
    /\ pc = "idle"
    /\ maxRetries' = m
    /\ timerArmed' = (1 <= m)
    /\ aborted' = FALSE
    /\ now' = 0
    /\ LoopHead(1, m)
    /\ UNCHANGED <<wakeAt, history, waits, slept>>
    /\ UNCHANGED viewVars

\* fetch() resolves with a response of status s (lines 86-99)
Respond(s) ==
    /\ pc = "fetching"
    /\ ~aborted
    /\ timerArmed' = FALSE
    /\ history' = Append(history, Response(s))
    /\ IF ResponseOk(s)
       THEN /\ pc' = "returned"
            /\ result' = Response(s)
            /\ UNCHANGED <<wakeAt, waits, attempt, calls, slept>>
       ELSE IF ThrowOnResponse(attempt, maxRetries, s)
            THEN Catch(HttpError(s))
            ELSE StartBackoff
    /\ UNCHANGED <<maxRetries, aborted, now>>
    /\ UNCHANGED viewVars

\* fetch() rejects with a transport failure
NetworkFail ==
    /\ pc = "fetching"
    /\ ~aborted
    /\ timerArmed' = FALSE
    /\ history' = Append(history, NetworkFailure)
    /\ Catch(NetworkFailure)
    /\ UNCHANGED <<maxRetries, aborted, now>>
    /\ UNCHANGED viewVars

\* the 15 s timer fires: controller.abort(), the pending fetch rejects with
\* AbortError
TimerFire ==
    /\ timerArmed
    /\ now >= TIMEOUT
    /\ timerArmed' = FALSE
    /\ aborted' = TRUE
    /\ IF pc = "fetching"
       THEN /\ history' = Append(history, AbortError)
            /\ Catch(AbortError)
       ELSE UNCHANGED <<pc, result, wakeAt, waits, attempt, calls, slept, history>>
    /\ UNCHANGED <<maxRetries, now>>
    /\ UNCHANGED viewVars

\* the backoff timer fires: attempt++ and the loop is re-entered; a fetch
\* on an already aborted signal rejects at once
Wake ==
    /\ pc = "backoff"
    /\ now >= wakeAt
    /\ slept' = Append(slept, now - (wakeAt - Backoff(attempt)))
    /\ IF aborted /\ attempt + 1 <= maxRetries
       THEN /\ attempt' = attempt + 1
            /\ calls' = calls + 1
            /\ history' = Append(history, AbortError)
            /\ IF CatchRethrows(attempt + 1, maxRetries, AbortError)
               THEN /\ pc' = "thrown"
                    /\ result' = AbortError
                    /\ UNCHANGED <<wakeAt, waits>>
               ELSE /\ pc' = "backoff"
                    /\ result' = result
                    /\ wakeAt' = now + Backoff(attempt + 1)
                    /\ waits' = Append(waits, Backoff(attempt + 1))
       ELSE /\ LoopHead(attempt + 1, maxRetries)
            /\ UNCHANGED <<wakeAt, waits, history>>
    /\ UNCHANGED <<maxRetries, timerArmed, aborted, now>>
    /\ UNCHANGED viewVars

\* one second passes; a due timer fires before the clock moves on
Tick ==
    /\ pc \in {"fetching", "backoff"}
    /\ now < MaxTime
    /\ timerArmed => now < TIMEOUT
    /\ pc = "backoff" => now < wakeAt
    /\ now' = now + 1
    /\ UNCHANGED <<pc, maxRetries, attempt, timerArmed, aborted, wakeAt,
                   result, calls, history, waits, slept>>
    /\ UNCHANGED viewVars


\* ========================================================================
\* The Blog page: ApiService cache, remote server and component handlers
\* ========================================================================
NoError == "null"

\* err instanceof Error ? err.message : fallback; every error fetchWithRetry
\* throws is an Error, so the message is always taken (the statusText the
\* server adds to an HTTP message is left out)
Message(err) ==
    CASE err.kind = "HttpError" -> "HTTP " \o ToString(err.status)
      [] err.kind = "NetworkFailure" -> "Failed to fetch"
      [] err.kind = "AbortError" -> "The operation was aborted"
      [] OTHER -> "Max retries exceeded"

\* ---- ApiService.cache -------------------------------------------------
EmptyCache == [k \in {} |-> 0]
PostsKey == "posts"
\* `post-${id}`
PostKey_Shared(id) == "post-"
PostKey(id) == "post-" \o ToString(id)

\* the test of getCachedData: an entry exists and is younger than the TTL
IsFresh_Inclusive(c, key, t) ==
    key \in DOMAIN c /\ t - c[key].timestamp <= CACHE_DURATION
IsFresh(c, key, t) ==
    key \in DOMAIN c /\ t - c[key].timestamp < CACHE_DURATION

\* getCachedData(key), null being found = FALSE
GetCachedData(c, key, t) ==
    IF IsFresh(c, key, t)
    THEN [found |-> TRUE, data |-> c[key].data]
    ELSE [found |-> FALSE, data |-> <<>>]

\* setCachedData(key, data) at time t
SetCachedData(c, key, data, t) ==
    [k \in DOMAIN c \cup {key} |->
        IF k = key THEN [data |-> data, timestamp |-> t] ELSE c[k]]

\* this.cache.delete(key)
CacheDelete_Everything(c, key) == EmptyCache
CacheDelete(c, key) == [k \in DOMAIN c \ {key} |-> c[k]]

\* the invalidations of deletePost(id) (lines 180-181)
DeletePostInvalidate_ListOnly(c, id) == CacheDelete(c, PostsKey)
DeletePostInvalidate(c, id) ==
    CacheDelete(CacheDelete(c, PostsKey), PostKey(id))

\* the invalidations of savePost(postData, id) (lines 198-201)
SavePostInvalidate_None(c, id) == c
SavePostInvalidate(c, id) ==
    IF id # NoId
    THEN CacheDelete(CacheDelete(c, PostsKey), PostKey(id))
    ELSE CacheDelete(c, PostsKey)

\* ---- ApiService.cache on its own ----------------------------------------
\* the keys and payloads the cache operations are applied to
CacheKeys == {PostsKey, PostKey(1)}
Payloads == {<<>>, <<1>>}

\* what is recorded of a key: never set, set to data at time at, or deleted
NeverSet == [state |-> "never", data |-> <<>>, at |-> 0]
NoOp == [op |-> "none", key |-> "", found |-> FALSE, data |-> <<>>]

\* setCachedData(key, data)
CacheSet(key, data) ==
    /\ cache' = SetCachedData(cache, key, data, clock)
    /\ written' = [written EXCEPT ![key] =
                       [state |-> "set", data |-> data, at |-> clock]]
    /\ lastOp' = [op |-> "set", key |-> key, found |-> FALSE, data |-> <<>>]
    /\ UNCHANGED <<server, nextId, clock, mounted, unmounted, posts, loading,
                   error, retrying, currentView, editingPost, tasks, ops,
                   faults, confirmedDeleted, failure, resync, autoRetries,
                   confirmedSaved>>
    /\ UNCHANGED retryVars
    /\ UNCHANGED filterVars

\* getCachedData(key): lastOp records what it returned
CacheGet(key) ==
    /\ lastOp' = [op |-> "get", key |-> key,
                  found |-> GetCachedData(cache, key, clock).found,
                  data |-> GetCachedData(cache, key, clock).data]
    /\ UNCHANGED <<server, nextId, cache, clock, mounted, unmounted, posts,
                   loading, error, retrying, currentView, editingPost, tasks,
                   ops, faults, confirmedDeleted, failure, resync,
                   autoRetries, confirmedSaved, written>>
    /\ UNCHANGED retryVars
    /\ UNCHANGED filterVars

\* this.cache.delete(key); lastOp records whether the key had a fresh entry
CacheInvalidate(key) ==
    /\ cache' = CacheDelete(cache, key)
    /\ written' = [written EXCEPT ![key] =
                       [state |-> "deleted", data |-> <<>>, at |-> clock]]
    /\ lastOp' = [op |-> "invalidate", key |-> key,
                  found |-> GetCachedData(cache, key, clock).found,
                  data |-> <<>>]
    /\ UNCHANGED <<server, nextId, clock, mounted, unmounted, posts, loading,
                   error, retrying, currentView, editingPost, tasks, ops,
                   faults, confirmedDeleted, failure, resync, autoRetries,
                   confirmedSaved>>
    /\ UNCHANGED retryVars
    /\ UNCHANGED filterVars

\* Date.now() advances by one minute
CacheTick ==
    /\ clock < MaxAge
    /\ clock' = clock + 1
    /\ lastOp' = [op |-> "tick", key |-> "", found |-> FALSE, data |-> <<>>]
    /\ UNCHANGED <<server, nextId, cache, mounted, unmounted, posts, loading,
                   error, retrying, currentView, editingPost, tasks, ops,
                   faults, confirmedDeleted, failure, resync,
                   autoRetries, confirmedSaved, written>>
    /\ UNCHANGED retryVars
    /\ UNCHANGED filterVars

\* ---- articles ---------------------------------------------------------
\* A string is the sequence of its characters. An optional field of an
\* article is None when it is missing and Some(v) when it holds v.
None == <<>>
Some(v) == <<v>>

\* String.prototype.toLowerCase, on the characters articles are made of
LowerChar(ch) ==
    CASE ch = "D" -> "d"
      [] ch = "G" -> "g"
      [] ch = "T" -> "t"
      [] ch = "X" -> "x"
      [] OTHER -> ch
ToLowerCase(str) == [i \in 1..Len(str) |-> LowerChar(str[i])]

\* str.includes(q): q occurs in str as a run of consecutive characters
Includes_Prefix(str, q) ==
    Len(q) <= Len(str) /\ SubSeq(str, 1, Len(q)) = q
Includes(str, q) ==
    \E i \in 1..(Len(str) - Len(q) + 1) : SubSeq(str, i, i + Len(q) - 1) = q

\* str.split(' ').length: a string without a space is one piece, the empty
\* string included, and every space starts another piece
SplitLength(str) == Cardinality({i \in 1..Len(str) : str[i] = " "}) + 1

\* Math.ceil(n / d) for n >= 0, d > 0
Ceil(n, d) == (n + d - 1) \div d

\* the divisor of the reading time (line 151)
WORDS_PER_MINUTE == 200

\* the literals 'General' (lines 150, 275, 293), "all" (lines 276, 279, 535)
\* and 'Draft' (line 154)
General == <<"G", "e", "n", "e", "r", "a", "l">>
All == <<"a", "l", "l">>
Draft == "Draft"

\* new Date(d).toLocaleDateString() for the timestamps the server holds
ToLocaleDateString(d) ==
    IF d = "2024-01-15T09:30:00Z" THEN "1/15/2024" ELSE "Invalid Date"

\* post.tags && post.tags.length > 0 ? post.tags[0].name : 'General'
\* (lines 150 and 275); a tag is modelled by its name
FirstTagOrGeneral(tags) ==
    IF tags # None /\ Len(tags[1]) > 0 THEN tags[1][1] ELSE General

\* (post.body || ''): a missing body and the empty string are falsy
BodyOrEmpty(body) ==
    IF body # None /\ body[1] # <<>> THEN body[1] ELSE <<>>

\* the fields ApiService.fetchPosts adds to an article (lines 148-156)
ProcessPost(post) ==
    [title |-> post.title, excerpt |-> post.excerpt, body |-> post.body,
     tags |-> post.tags, status |-> post.status,
     published_at |-> post.published_at,
     category |-> FirstTagOrGeneral(post.tags),
     readingTime |->
         ToString(Ceil(SplitLength(BodyOrEmpty(post.body)), WORDS_PER_MINUTE))
             \o " min",
     publishedAt |->
         IF post.published_at # None /\ post.published_at[1] # ""
         THEN ToLocaleDateString(post.published_at[1])
         ELSE Draft]

\* the element of the in-memory list that has identifier id
Article(id) == ProcessPost(catalog[id])

\* ---- the filtered view and the category selector ----------------------
\* the predicate of posts.filter (lines 272-281)
MatchesSearch(post, q) ==
    \/ Includes(ToLowerCase(post.title), ToLowerCase(q))
    \/ Includes(ToLowerCase(post.excerpt), ToLowerCase(q))

MatchesCategory(post, c) ==
    c = All \/ ToLowerCase(FirstTagOrGeneral(post.tags)) = ToLowerCase(c)

MatchesStatus(post, st) == st = "all" \/ post.status = st

\* posts.filter(...) of lines 271-282 over the list of identifiers list,
\* for the search text q, the category c and the status st
RECURSIVE FilteredWith(_, _, _, _)
FilteredWith(list, q, c, st) ==
    IF list = <<>> THEN <<>>
    ELSE LET post == Article(Head(list))
             rest == FilteredWith(Tail(list), q, c, st)
         IN IF MatchesSearch(post, q) /\ MatchesCategory(post, c)
                                      /\ MatchesStatus(post, st)
            THEN <<Head(list)>> \o rest
            ELSE rest

\* filteredPosts of the current render
FilteredPosts == FilteredWith(posts, searchQuery, categoryFilter, statusFilter)

\* the names a post adds to the Set of uniqueCategories (lines 290-294)
CategoriesOf(post) ==
    IF post.tags # None /\ Len(post.tags[1]) > 0
    THEN {post.tags[1][i] : i \in 1..Len(post.tags[1])}
    ELSE {General}

\* uniqueCategories (lines 286-296), as the set of its elements
UniqueCategories == UNION {CategoriesOf(Article(posts[i])) : i \in 1..Len(posts)}

\* the values of the items of the category Select (lines 535-540)
CategoryItems == {All} \cup {ToLowerCase(cat) : cat \in UniqueCategories}

\* the values of the items of the status Select (lines 548-551)
StatusItems == {"all", "published", "draft", "archived"}

\* ---- remote server ----------------------------------------------------
\* body of GET /posts: the articles held, in ascending identifier order
RECURSIVE ListOf(_)
ListOf(S) ==
    IF S = {} THEN <<>>
    ELSE LET m == CHOOSE x \in S : \A y \in S : x <= y
         IN <<m>> \o ListOf(S \ {m})

\* the identifiers of a list
IdsOf(list) == {list[i] : i \in 1..Len(list)}

\* ---- suspended handler invocations -------------------------------------
\* A task is a handler invocation suspended in fetchWithRetry.
\*   op        load (fetchPosts), edit, delete, save, publish
\*   id        the article the request is about, or NoId
\*   stage     main, reload for a save/publish awaiting its fetchPosts(), or
\*             effect for the fetchPosts() that initialFetch awaits
\*   showRetry the showRetryState argument of fetchPosts
\*   len       posts.length captured by the fetchPosts closure in use
\*   attempt   loop variable of fetchWithRetry
\*   net       sent, answered (a success response is on its way), backoff,
\*             or delayed for the 2 s timer of initialFetch before its request
\*   body      body of the success response on its way
\*   armed     the 15 s timer of this fetchWithRetry call is pending
Task(op, id, stage, showRetry, len) ==
    [op |-> op, id |-> id, stage |-> stage, showRetry |-> showRetry,
     len |-> len, attempt |-> 1, net |-> "sent", body |-> <<>>,
     armed |-> TRUE]

\* fetchPosts() called without argument by the component
LoadTask(len) == Task("load", NoId, "main", FALSE, len)

\* fetchPosts() awaited inside the try block of initialFetch (line 249)
EffectTask(len) == Task("load", NoId, "effect", FALSE, len)

\* the request of task t goes to GET /posts
IsListRequest(t) == t.op = "load" \/ t.stage = "reload"

Pending == BagToSet(tasks)

\* the user may start another network operation
MayStart == ops < MaxOps /\ BagCardinality(tasks) < MaxInFlight

\* ---- component state as a value ----------------------------------------
Cur ==
    [posts |-> posts, loading |-> loading, error |-> error,
     retrying |-> retrying, currentView |-> currentView,
     editingPost |-> editingPost, cache |-> cache, tasks |-> tasks,
     confirmedDeleted |-> confirmedDeleted, failure |-> failure,
     resync |-> resync, autoRetries |-> autoRetries,
     confirmedSaved |-> confirmedSaved]

Commit(V) ==
    /\ posts' = V.posts
    /\ loading' = V.loading
    /\ error' = V.error
    /\ retrying' = V.retrying
    /\ currentView' = V.currentView
    /\ editingPost' = V.editingPost
    /\ cache' = V.cache
    /\ tasks' = V.tasks
    /\ confirmedDeleted' = V.confirmedDeleted
    /\ failure' = V.failure
    /\ resync' = V.resync
    /\ autoRetries' = V.autoRetries
    /\ confirmedSaved' = V.confirmedSaved

\* the user acts: what failed before is no longer the last thing that happened
UserOp(V) == [V EXCEPT !.failure = NoError, !.resync = "none"]

Without(V, t) == [V EXCEPT !.tasks = @ (-) SetToBag({t})]

\* ---- fetchPosts of the component (lines 218-241) ------------------------
\* try block after ApiService.fetchPosts() resolved with data, and finally;
\* a save/publish handler awaiting it then returns to the dashboard
FetchPostsResolved_NoFinally(V, t, data) ==
    [V EXCEPT !.posts = data,
              !.currentView = IF t.stage = "reload" THEN "dashboard" ELSE @]
FetchPostsResolved(V, t, data) ==
    [V EXCEPT !.posts = data,
              !.loading = FALSE,
              !.retrying = FALSE,
              !.currentView = IF t.stage = "reload" THEN "dashboard" ELSE @]

\* catch block after ApiService.fetchPosts() rejected with err, and finally
FetchPostsRejected_Caches(V, t, err) ==
    [V EXCEPT !.error = Message(err),
              !.failure = Message(err),
              !.cache = SetCachedData(@, PostsKey, V.posts, clock),
              !.posts = IF t.len = 0 THEN <<>> ELSE @,
              !.loading = FALSE,
              !.retrying = FALSE,
              !.currentView = IF t.stage = "reload" THEN "dashboard" ELSE @]
FetchPostsRejected(V, t, err) ==
    [V EXCEPT !.error = Message(err),
              !.failure = Message(err),
              !.posts = IF t.len = 0 THEN <<>> ELSE @,
              !.loading = FALSE,
              !.retrying = FALSE,
              !.currentView = IF t.stage = "reload" THEN "dashboard" ELSE @]

\* fetchPosts(t.showRetry) from its call to its first suspension: on a cache
\* hit ApiService.fetchPosts resolves without a request and the call runs
\* to its end, otherwise GET /posts is sent and the call is suspended as t
FetchPostsCall(V, t) ==
    LET V1 == [V EXCEPT !.retrying = IF t.showRetry THEN TRUE ELSE @,
                        !.loading = IF t.showRetry THEN @ ELSE TRUE,
                        !.error = NoError]
        hit == GetCachedData(V.cache, PostsKey, clock)
    IN IF hit.found
       THEN FetchPostsResolved(V1, t, hit.data)
       ELSE [V1 EXCEPT !.tasks = @ (+) SetToBag({t})]

\* useEffect(..., [fetchPosts]) (lines 244-267): fetchPosts is re-created
\* when posts.length changes, and the effect then calls it again; no effect
\* runs for a component that was unmounted
RECURSIVE Settle(_, _)
Settle(V, prevLen) ==
    IF unmounted \/ Len(V.posts) = prevLen THEN V
    ELSE Settle(FetchPostsCall(V, EffectTask(Len(V.posts))), Len(V.posts))

\* how the promise returned by fetchPosts settles when ApiService.fetchPosts
\* settled as api (lines 218-241): the catch block handles a rejection and
\* throws nothing, and the finally block throws nothing
FetchPostsSettles(api) == "fulfilled"

\* initialFetch after its await (lines 248-261): the catch block arms the
\* 2 s timer when the awaited fetchPosts() rejected and the effect is live
InitialFetchCatch(V, t, settled) ==
    IF t.stage = "effect" /\ settled = "rejected" /\ mounted
    THEN [V EXCEPT !.tasks = @ (+) SetToBag({[EffectTask(t.len) EXCEPT
                                                !.net = "delayed",
                                                !.armed = FALSE]})]
    ELSE V

\* the callback of that timer (lines 255-259)
RetryTimer(V, t) ==
    IF mounted
    THEN FetchPostsCall([V EXCEPT !.autoRetries = @ + 1], LoadTask(t.len))
    ELSE V

\* ---- fetchWithRetry inside a task ---------------------------------------
\* the attempt that ended with outcome out makes fetchWithRetry throw
Rethrown(k, m, out) ==
    IF out.kind = "Response"
    THEN ThrowOnResponse(k, m, out.status)
            /\ CatchRethrows(k, m, HttpError(out.status))
    ELSE CatchRethrows(k, m, out)

\* the error fetchWithRetry throws for that outcome
ErrorOf(out) ==
    IF out.kind = "Response" THEN HttpError(out.status) ELSE out

\* ---- continuations of the handlers --------------------------------------
\* the catch block of handleEditPost, handleSavePost and handlePublishPost:
\* setError(message) and nothing else
ReportFailure_BackToList(V, err) ==
    [V EXCEPT !.error = Message(err), !.failure = Message(err),
              !.currentView = "dashboard"]
ReportFailure(V, err) ==
    [V EXCEPT !.error = Message(err), !.failure = Message(err)]

\* the handler suspended as t resumes after fetchWithRetry threw err
OpFailed(V, t, err) ==
    IF IsListRequest(t)
    THEN InitialFetchCatch(FetchPostsRejected(V, t, err), t,
                           FetchPostsSettles("rejected"))
    ELSE IF t.op = "delete"
    THEN \* lines 337-343: report, then fetchPosts()
         LET V1 == [V EXCEPT !.error = Message(err),
                             !.failure = Message(err),
                             !.resync =
                                 IF IsFresh(V.cache, PostsKey, clock)
                                 THEN "cached" ELSE "requested"]
         IN FetchPostsCall(V1, LoadTask(t.len))
    ELSE \* handleEditPost, handleSavePost, handlePublishPost: report
         ReportFailure(V, err)

\* the handler suspended as t resumes after fetchWithRetry returned the
\* response with body t.body (response.json() included)
OpSucceeded(V, t) ==
    IF IsListRequest(t)
    THEN \* ApiService.fetchPosts lines 146-159, then fetchPosts line 228
         FetchPostsResolved(
             [V EXCEPT !.cache = SetCachedData(@, PostsKey, t.body, clock)],
             t, t.body)
    ELSE IF t.op = "edit"
    THEN \* ApiService.fetchPost lines 171-174, handleEditPost lines 308-319
         [V EXCEPT !.cache = SetCachedData(@, PostKey(t.id), t.body, clock),
                   !.editingPost = t.body[1],
                   !.currentView = "editor"]
    ELSE IF t.op = "delete"
    THEN \* ApiService.deletePost lines 180-181, handleDeletePost line 336
         [V EXCEPT !.cache = DeletePostInvalidate(@, t.id),
                   !.posts = SelectSeq(@, LAMBDA x : x # t.id),
                   !.confirmedDeleted = @ \cup {t.id}]
    ELSE \* ApiService.savePost lines 194-202, then await fetchPosts()
         FetchPostsCall([V EXCEPT !.cache = SavePostInvalidate(@, t.id),
                                  !.confirmedSaved = @ \cup {t.body[1]}],
                        Task(t.op, t.id, "reload", FALSE, t.len))

\* an attempt of task t ended with the failure out (lines 93-115)
AttemptFailed(t, out) ==
    IF Rethrown(t.attempt, DEFAULT_MAX_RETRIES, out)
    THEN Commit(Settle(OpFailed(Without(Cur, t), t, ErrorOf(out)), Len(posts)))
    ELSE /\ tasks' = (tasks (-) SetToBag({t})) (+)
                     SetToBag({[t EXCEPT !.net = "backoff", !.armed = FALSE,
                                         !.body = <<>>]})
         /\ UNCHANGED <<posts, loading, error, retrying, currentView,
                        editingPost, cache, confirmedDeleted, failure, resync, autoRetries,
                   confirmedSaved>>

\* ---- the network and the server -----------------------------------------
\* the request fetchWithRetry sends for t (lines 145, 169, 178, 185-187):
\* method, and id for the path /posts/{id} or NoId for the path /posts
Request(t) ==
    IF IsListRequest(t) THEN [method |-> "GET", id |-> NoId]
    ELSE IF t.op = "edit" THEN [method |-> "GET", id |-> t.id]
    ELSE IF t.op = "delete" THEN [method |-> "DELETE", id |-> t.id]
    ELSE IF t.id # NoId THEN [method |-> "PUT", id |-> t.id]
    ELSE [method |-> "POST", id |-> NoId]

\* what the server does with the request of t when it accepts it:
\* [ok, server, nextId, body]
Served(t) ==
    LET r == Request(t)
    IN IF r.method = "GET" /\ r.id = NoId
       THEN [ok |-> TRUE, server |-> server, nextId |-> nextId,
             body |-> ListOf(server)]
       ELSE IF r.method = "DELETE"
       THEN [ok |-> r.id \in server, server |-> server \ {r.id},
             nextId |-> nextId, body |-> <<>>]
       ELSE IF r.method = "POST"
       THEN [ok |-> nextId <= MaxId, server |-> server \cup {nextId},
             nextId |-> nextId + 1, body |-> <<nextId>>]
       ELSE \* GET or PUT /posts/{id}
            [ok |-> r.id \in server, server |-> server, nextId |-> nextId,
             body |-> <<r.id>>]

\* the server carries out the request of t and sends a success response
ServerOk(t) ==
    /\ t \in Pending
    /\ t.net = "sent"
    /\ Served(t).ok
    /\ server' = Served(t).server
    /\ nextId' = Served(t).nextId
    /\ tasks' = (tasks (-) SetToBag({t})) (+)
                SetToBag({[t EXCEPT !.net = "answered", !.body = Served(t).body]})
    /\ UNCHANGED <<cache, clock, mounted, unmounted, posts, loading, error, retrying,
                   currentView, editingPost, ops, faults, confirmedDeleted,
                   failure, resync, autoRetries,
                   confirmedSaved>>
    /\ UNCHANGED retryVars
    /\ UNCHANGED filterVars
    /\ UNCHANGED cacheHist

\* the server refuses the request of t with status s and fetch() resolves
\* with that response
ServerError(t, s) ==
    /\ t \in Pending
    /\ t.net = "sent"
    /\ faults < MaxFaults
    /\ faults' = faults + 1
    /\ AttemptFailed(t, Response(s))
    /\ UNCHANGED <<server, nextId, clock, mounted, unmounted, ops>>
    /\ UNCHANGED retryVars
    /\ UNCHANGED filterVars
    /\ UNCHANGED cacheHist

\* fetch() of t resolves with the success response and its body is read
DeliverOk(t) ==
    /\ t \in Pending
    /\ t.net = "answered"
    /\ Commit(Settle(OpSucceeded(Without(Cur, t), t), Len(posts)))
    /\ UNCHANGED <<server, nextId, clock, mounted, unmounted, ops, faults>>
    /\ UNCHANGED retryVars
    /\ UNCHANGED filterVars
    /\ UNCHANGED cacheHist

\* the request of t or the response to it is lost: fetch() rejects
NetFail(t) ==
    /\ t \in Pending
    /\ t.net \in {"sent", "answered"}
    /\ faults < MaxFaults
    /\ faults' = faults + 1
    /\ AttemptFailed(t, NetworkFailure)
    /\ UNCHANGED <<server, nextId, clock, mounted, unmounted, ops>>
    /\ UNCHANGED retryVars
    /\ UNCHANGED filterVars
    /\ UNCHANGED cacheHist

\* the 15 s timer of t fires while its first fetch() is pending
Abort(t) ==
    /\ t \in Pending
    /\ t.armed
    /\ t.net \in {"sent", "answered"}
    /\ faults < MaxFaults
    /\ faults' = faults + 1
    /\ AttemptFailed(t, AbortError)
    /\ UNCHANGED <<server, nextId, clock, mounted, unmounted, ops>>
    /\ UNCHANGED retryVars
    /\ UNCHANGED filterVars
    /\ UNCHANGED cacheHist

\* a timer of t fires: its backoff is over (attempt++ and fetch() again), or
\* the 2 s delay of initialFetch is over
WakeTask(t) ==
    /\ t \in Pending
    /\ t.net \in {"backoff", "delayed"}
    /\ IF t.net = "backoff"
       THEN /\ tasks' = (tasks (-) SetToBag({t})) (+)
                        SetToBag({[t EXCEPT !.net = "sent", !.attempt = @ + 1]})
            /\ UNCHANGED <<cache, posts, loading, error, retrying, currentView,
                           editingPost, confirmedDeleted, failure, resync,
                           autoRetries, confirmedSaved>>
       ELSE Commit(Settle(RetryTimer(Without(Cur, t), t), Len(posts)))
    /\ UNCHANGED <<server, nextId, clock, mounted, unmounted, ops, faults>>
    /\ UNCHANGED retryVars
    /\ UNCHANGED filterVars
    /\ UNCHANGED cacheHist

\* time passes; Spec lets it pass in steps of the TTL, so that an entry of
\* the cache is either as old as the last write or expired
ClockTick ==
    /\ mounted
    /\ clock < MaxTicks * CACHE_DURATION
    /\ clock' = clock + CACHE_DURATION
    /\ UNCHANGED <<server, nextId, cache, mounted, unmounted, posts, loading, error,
                   retrying, currentView, editingPost, tasks, ops, faults,
                   confirmedDeleted, failure, resync, autoRetries,
                   confirmedSaved>>
    /\ UNCHANGED retryVars
    /\ UNCHANGED filterVars
    /\ UNCHANGED cacheHist

\* ---- the component and its user -----------------------------------------
\* first render committed: the effect runs initialFetch()
Mount ==
    /\ ~mounted
    /\ ~unmounted
    /\ mounted' = TRUE
    /\ Commit(FetchPostsCall(Cur, EffectTask(Len(posts))))
    /\ UNCHANGED <<server, nextId, clock, unmounted, ops, faults>>
    /\ UNCHANGED retryVars
    /\ UNCHANGED filterVars
    /\ UNCHANGED cacheHist

\* the article cards are rendered (line 578)
CardsShown == mounted /\ currentView = "dashboard" /\ ~loading

\* the error banner with its Dismiss button is rendered: it is part of the
\* dashboard (lines 480-513); the editor view (lines 403-412) renders
\* BlogEditor alone
ErrorShown == mounted /\ currentView = "dashboard" /\ error # NoError

\* handleRetry through one of its enabled buttons (lines 465, 491, 603)
HandleRetry ==
    /\ mounted
    /\ currentView = "dashboard"
    /\ ~retrying
    /\ ~loading \/ error # NoError
    /\ MayStart
    /\ ops' = ops + 1
    /\ Commit(Settle(FetchPostsCall(UserOp(Cur),
                                    Task("load", NoId, "main", TRUE, Len(posts))),
                     Len(posts)))
    /\ UNCHANGED <<server, nextId, clock, mounted, unmounted, faults>>
    /\ UNCHANGED retryVars
    /\ UNCHANGED filterVars
    /\ UNCHANGED cacheHist

\* handleNewPost
HandleNewPost ==
    /\ mounted
    /\ currentView = "dashboard"
    /\ editingPost' = NoId
    /\ currentView' = "editor"
    /\ UNCHANGED <<server, nextId, cache, clock, mounted, unmounted, posts, loading,
                   error, retrying, tasks, ops, faults, confirmedDeleted,
                   failure, resync, autoRetries,
                   confirmedSaved>>
    /\ UNCHANGED retryVars
    /\ UNCHANGED filterVars
    /\ UNCHANGED cacheHist

\* handleEditPost(id) from the card of id
HandleEditPost(id) ==
    /\ CardsShown
    /\ id \in IdsOf(posts)
    /\ MayStart
    /\ ops' = ops + 1
    /\ LET V1 == [UserOp(Cur) EXCEPT !.error = NoError]
           hit == GetCachedData(cache, PostKey(id), clock)
       IN Commit(IF hit.found
                 THEN [V1 EXCEPT !.editingPost = hit.data[1],
                                 !.currentView = "editor"]
                 ELSE [V1 EXCEPT !.tasks = @ (+)
                          SetToBag({Task("edit", id, "main", FALSE, Len(posts))})])
    /\ UNCHANGED <<server, nextId, clock, mounted, unmounted, faults>>
    /\ UNCHANGED retryVars
    /\ UNCHANGED filterVars
    /\ UNCHANGED cacheHist

\* handleDeletePost(id) from the card of id; confirmed is the answer to the
\* confirm() dialog
HandleDeletePost_Optimistic(id, confirmed) ==
    /\ CardsShown
    /\ id \in IdsOf(posts)
    /\ MayStart
    /\ IF confirmed
       THEN /\ ops' = ops + 1
            /\ Commit([UserOp(Cur) EXCEPT
                   !.error = NoError,
                   !.posts = SelectSeq(@, LAMBDA x : x # id),
                   !.tasks = @ (+)
                       SetToBag({Task("delete", id, "main", FALSE, Len(posts))})])
       ELSE UNCHANGED <<ops, posts, loading, error, retrying, currentView,
                        editingPost, cache, tasks, confirmedDeleted, failure,
                        resync, autoRetries,
                   confirmedSaved>>
    /\ UNCHANGED <<server, nextId, clock, mounted, unmounted, faults>>
    /\ UNCHANGED retryVars
    /\ UNCHANGED filterVars
    /\ UNCHANGED cacheHist
HandleDeletePost(id, confirmed) ==
    /\ CardsShown
    /\ id \in IdsOf(posts)
    /\ MayStart
    /\ IF confirmed
       THEN /\ ops' = ops + 1
            /\ Commit([UserOp(Cur) EXCEPT
                   !.error = NoError,
                   !.tasks = @ (+)
                       SetToBag({Task("delete", id, "main", FALSE, Len(posts))})])
       ELSE UNCHANGED <<ops, posts, loading, error, retrying, currentView,
                        editingPost, cache, tasks, confirmedDeleted, failure,
                        resync, autoRetries,
                   confirmedSaved>>
    /\ UNCHANGED <<server, nextId, clock, mounted, unmounted, faults>>
    /\ UNCHANGED retryVars
    /\ UNCHANGED filterVars
    /\ UNCHANGED cacheHist

\* handleSavePost / handlePublishPost(postData) from the editor, postData.id
\* being the id of the post the editor was opened with
HandleSaveOrPublish(op) ==
    /\ mounted
    /\ currentView = "editor"
    /\ MayStart
    /\ ops' = ops + 1
    /\ Commit([UserOp(Cur) EXCEPT
           !.error = NoError,
           !.tasks = @ (+)
               SetToBag({Task(op, editingPost, "main", FALSE, Len(posts))})])
    /\ UNCHANGED <<server, nextId, clock, mounted, unmounted, faults>>
    /\ UNCHANGED retryVars
    /\ UNCHANGED filterVars
    /\ UNCHANGED cacheHist

HandleSavePost == HandleSaveOrPublish("save")

HandlePublishPost == HandleSaveOrPublish("publish")

\* onBack of the editor
OnBack ==
    /\ mounted
    /\ currentView = "editor"
    /\ currentView' = "dashboard"
    /\ UNCHANGED <<server, nextId, cache, clock, mounted, unmounted, posts, loading,
                   error, retrying, editingPost, tasks, ops, faults,
                   confirmedDeleted, failure, resync, autoRetries,
                   confirmedSaved>>
    /\ UNCHANGED retryVars
    /\ UNCHANGED filterVars
    /\ UNCHANGED cacheHist

\* the Dismiss button of the error banner (line 506)
DismissError ==
    /\ mounted
    /\ currentView = "dashboard"
    /\ error # NoError
    /\ error' = NoError
    /\ failure' = NoError
    /\ resync' = "none"
    /\ UNCHANGED <<autoRetries, confirmedSaved>>
    /\ UNCHANGED <<server, nextId, cache, clock, mounted, unmounted, posts, loading,
                   retrying, currentView, editingPost, tasks, ops, faults,
                   confirmedDeleted>>
    /\ UNCHANGED retryVars
    /\ UNCHANGED filterVars
    /\ UNCHANGED cacheHist

\* the user navigates away: Blog is unmounted and the cleanup of its effect
\* sets isMounted = false (line 264). The handlers that are suspended in a
\* request are not cancelled; from here on posts, loading, error, retrying,
\* currentView and editingPost hold what the setters were last called with
Unmount ==
    /\ mounted
    /\ mounted' = FALSE
    /\ unmounted' = TRUE
    /\ UNCHANGED <<server, nextId, cache, clock, posts, loading, error,
                   retrying, currentView, editingPost, tasks, ops, faults,
                   confirmedDeleted, failure, resync, autoRetries,
                   confirmedSaved>>
    /\ UNCHANGED retryVars
    /\ UNCHANGED filterVars
    /\ UNCHANGED cacheHist

\* ---- the filters of the dashboard ---------------------------------------
\* what the user types into the search box
Queries == {<<>>, <<"d">>, <<"d", "X">>}

\* the effects after the render that a filter change causes: the effect of
\* lines 244-267 runs again only if fetchPosts was re-created
FilterRender_NoDeps(V) == FetchPostsCall(V, EffectTask(Len(V.posts)))
FilterRender(V) == Settle(V, Len(posts))

\* onChange of the search box (line 522)
SetSearchQuery(q) ==
    /\ mounted
    /\ currentView = "dashboard"
    /\ q # searchQuery
    /\ searchQuery' = q
    /\ Commit(FilterRender(Cur))
    /\ UNCHANGED <<server, nextId, clock, mounted, unmounted, ops, faults,
                   catalog, categoryFilter, statusFilter>>
    /\ UNCHANGED retryVars
    /\ UNCHANGED cacheHist

\* onValueChange of the category Select (line 529)
SetCategoryFilter(c) ==
    /\ mounted
    /\ currentView = "dashboard"
    /\ c \in CategoryItems
    /\ c # categoryFilter
    /\ categoryFilter' = c
    /\ Commit(FilterRender(Cur))
    /\ UNCHANGED <<server, nextId, clock, mounted, unmounted, ops, faults,
                   catalog, searchQuery, statusFilter>>
    /\ UNCHANGED retryVars
    /\ UNCHANGED cacheHist

\* onValueChange of the status Select (line 543)
SetStatusFilter(st) ==
    /\ mounted
    /\ currentView = "dashboard"
    /\ st \in StatusItems
    /\ st # statusFilter
    /\ statusFilter' = st
    /\ Commit(FilterRender(Cur))
    /\ UNCHANGED <<server, nextId, clock, mounted, unmounted, ops, faults,
                   catalog, searchQuery, categoryFilter>>
    /\ UNCHANGED retryVars
    /\ UNCHANGED cacheHist

\* ---- the articles the server holds ---------------------------------------
\* n words separated by sep
Words(n, sep) == [i \in 1..(2 * n - 1) |-> IF i % 2 = 1 THEN "w" ELSE sep]

\* the article every identifier stands for where the content plays no role
DefaultPost ==
    [title |-> <<"x">>, excerpt |-> <<>>, body |-> Some(<<"w">>),
     tags |-> None, status |-> "draft", published_at |-> None]

DefaultCatalog == [id \in 1..MaxId |-> DefaultPost]

\* articles that differ in what the filters look at
FilterFamily ==
    {[DefaultPost EXCEPT !.title = ti, !.excerpt = ex, !.tags = tg,
                         !.status = st] :
        ti \in {<<"x">>, <<"D", "x">>},
        ex \in {<<>>, <<"x", "d">>},
        tg \in {None, Some(<<<<"T">>>>), Some(<<<<"T">>, <<"n">>>>)},
        st \in {"published", "draft"}}

\* articles that differ in what the derived fields are computed from
DeriveFamily ==
    {[DefaultPost EXCEPT !.body = bd, !.tags = tg, !.published_at = pa] :
        bd \in {None, Some(<<>>), Some(<<"w", " ", " ", "w">>),
                Some(Words(WORDS_PER_MINUTE + 1, "\n"))}
               \cup {Some(Words(n, " ")) :
                        n \in {1, WORDS_PER_MINUTE, WORDS_PER_MINUTE + 1,
                               2 * WORDS_PER_MINUTE}},
        tg \in {None, Some(<<>>), Some(<<<<"T">>>>), Some(<<<<"T">>, <<"n">>>>)},
        pa \in {None, Some(""), Some("2024-01-15T09:30:00Z")}}

\* ---- specifications -----------------------------------------------------
RetryInit ==
    /\ pc = "idle"
    /\ maxRetries = 0
    /\ attempt = 0
    /\ timerArmed = FALSE
    /\ aborted = FALSE
    /\ now = 0
    /\ wakeAt = 0
    /\ result = NoResult
    /\ calls = 0
    /\ history = <<>>
    /\ waits = <<>>
    /\ slept = <<>>

\* the page is loaded and Blog rendered for the first time, the server
\* holding the articles 1..n
ViewInit(n) ==
    /\ server = 1..n
    /\ nextId = n + 1
    /\ cache = EmptyCache
    /\ clock = 0
    /\ mounted = FALSE
    /\ unmounted = FALSE
    /\ posts = <<>>
    /\ loading = TRUE
    /\ error = NoError
    /\ retrying = FALSE
    /\ currentView = "dashboard"
    /\ editingPost = NoId
    /\ tasks = EmptyBag
    /\ ops = 0
    /\ faults = 0
    /\ confirmedDeleted = {}
    /\ failure = NoError
    /\ resync = "none"
    /\ autoRetries = 0
    /\ confirmedSaved = {}
    /\ written = [k \in CacheKeys |-> NeverSet]
    /\ lastOp = NoOp
    /\ searchQuery = <<>>
    /\ categoryFilter = All
    /\ statusFilter = "all"

InitRetry == RetryInit /\ ViewInit(0) /\ catalog = DefaultCatalog

NextRetry ==
    \/ \E m \in 0..MaxRetriesArg : Call(m)
    \/ \E s \in Statuses : Respond(s)
    \/ NetworkFail
    \/ TimerFire
    \/ Wake
    \/ Tick

SpecRetry == InitRetry /\ [][NextRetry]_vars

InitCache == RetryInit /\ ViewInit(0) /\ catalog = DefaultCatalog

NextCache ==
    \/ \E key \in CacheKeys, data \in Payloads : CacheSet(key, data)
    \/ \E key \in CacheKeys : CacheGet(key)
    \/ \E key \in CacheKeys : CacheInvalidate(key)
    \/ CacheTick

SpecCache == InitCache /\ [][NextCache]_vars

Init == RetryInit /\ catalog = DefaultCatalog /\ \E n \in 0..MaxId : ViewInit(n)

Next ==
    \/ Mount
    \/ HandleRetry
    \/ HandleNewPost
    \/ \E id \in Ids : HandleEditPost(id)
    \/ \E id \in Ids, confirmed \in BOOLEAN : HandleDeletePost(id, confirmed)
    \/ HandleSavePost
    \/ HandlePublishPost
    \/ OnBack
    \/ DismissError
    \/ Unmount
    \/ \E t \in Pending : ServerOk(t)
    \/ \E t \in Pending, s \in ErrorStatuses : ServerError(t, s)
    \/ \E t \in Pending : DeliverOk(t)
    \/ \E t \in Pending : NetFail(t)
    \/ \E t \in Pending : Abort(t)
    \/ \E t \in Pending : WakeTask(t)
    \/ ClockTick

Spec == Init /\ [][Next]_vars

\* the server answers a request it cannot carry out (no such article) with
\* 404, and fetch() resolves with that response
ServerRefuses(t) ==
    /\ t \in Pending
    /\ t.net = "sent"
    /\ ~Served(t).ok
    /\ AttemptFailed(t, Response(404))
    /\ UNCHANGED <<server, nextId, clock, mounted, unmounted, ops, faults>>
    /\ UNCHANGED retryVars
    /\ UNCHANGED filterVars
    /\ UNCHANGED cacheHist

\* the page with a user who starts at most MaxLiveOps operations, a server
\* that answers every request and timers that fire: React runs the effect
\* of the first render, and every suspended fetchWithRetry call goes on
InitLive == Init

NextLive ==
    \/ Next /\ ops' <= MaxLiveOps
    \/ \E t \in Pending : ServerRefuses(t)

\* a step that a pending request, response or timer leads to on its own
NetworkProgress ==
    \E t \in Pending :
        ServerOk(t) \/ ServerRefuses(t) \/ DeliverOk(t) \/ WakeTask(t)

SpecLive ==
    /\ InitLive
    /\ [][NextLive]_vars
    /\ WF_vars(Mount)
    /\ WF_vars(NetworkProgress)

\* the dashboard over a server that holds up to MaxPosts articles of
\* FilterFamily: the list is loaded and the user changes the filters
InitFilter ==
    /\ RetryInit
    /\ \E n \in 0..MaxPosts :
           /\ ViewInit(n)
           /\ catalog \in [1..n -> FilterFamily]

NextFilter ==
    \/ Mount
    \/ \E t \in Pending : ServerOk(t)
    \/ \E t \in Pending : DeliverOk(t)
    \/ \E t \in Pending : NetFail(t)
    \/ \E t \in Pending : WakeTask(t)
    \/ \E q \in Queries : SetSearchQuery(q)
    \/ \E c \in CategoryItems : SetCategoryFilter(c)
    \/ \E st \in StatusItems : SetStatusFilter(st)

SpecFilter == InitFilter /\ [][NextFilter]_vars

\* the list load over a server that holds one article of DeriveFamily
InitDerive ==
    /\ RetryInit
    /\ ViewInit(1)
    /\ catalog \in [1..1 -> DeriveFamily]

NextDerive ==
    \/ Mount
    \/ \E t \in Pending : ServerOk(t)
    \/ \E t \in Pending : DeliverOk(t)
    \/ \E t \in Pending : NetFail(t)
    \/ \E t \in Pending : WakeTask(t)

SpecDerive == InitDerive /\ [][NextDerive]_vars

\* ========================================================================
\* Properties of fetchWithRetry (checked under SpecRetry)
\* ========================================================================
\* attempt k ended with a response whose status is neither ok nor >= 500
ClientErrorAt(k) ==
    /\ history[k].kind = "Response"
    /\ ~ResponseOk(history[k].status)
    /\ history[k].status < 500

\* attempt k ended with a response of status >= 500
ServerErrorAt(k) == history[k].kind = "Response" /\ history[k].status >= 500

\* attempt k ended in a failure the loop is meant to retry
RetryableAt(k) == ServerErrorAt(k) \/ history[k] = NetworkFailure

\* the error attempt k raises inside the loop
ErrorOfAttempt(k) ==
    IF history[k].kind = "Response" THEN HttpError(history[k].status)
    ELSE history[k]

\* attempt k was followed by a backoff of exactly 2^k seconds: the timer was
\* requested for 2^k s, and either attempt k+1 started when it was due or
\* the call is still inside that backoff
BackedOffAfter(k) ==
    /\ Len(waits) >= k
    /\ waits[k] = 2 ^ k
    /\ k > 1 => waits[k] = 2 * waits[k - 1]
    /\ IF calls > k
       THEN Len(slept) >= k /\ slept[k] = 2 ^ k
       ELSE pc = "backoff" /\ attempt = k /\ now <= wakeAt
                           /\ wakeAt - now <= 2 ^ k

\* C1: with maxRetries >= 2, a first response with a non-success status
\* below 500 makes the call fail with the HttpError of that status after
\* exactly one fetch, with no backoff and no second attempt.
C1_ClientErrorFailsAtOnce ==
    (maxRetries >= 2 /\ Len(history) >= 1 /\ ClientErrorAt(1)) =>
        /\ pc = "thrown"
        /\ result = HttpError(history[1].status)
        /\ calls = 1
        /\ waits = <<>>

\* C2: one overall 15 s deadline covers the whole call: the call is never
\* still in an attempt or in a backoff once more than 15 s have passed since
\* it started.
C2_OverallDeadline ==
    pc \in {"fetching", "backoff"} => now <= TIMEOUT

\* C3 (as claimed): when each of the maxRetries attempts ended in a
\* retryable failure the call fails with 'Max retries exceeded'.
C3_MaxRetriesExceeded ==
    (pc = "thrown" /\ Len(history) = maxRetries
        /\ \A k \in 1..Len(history) : RetryableAt(k)) =>
        result = MaxRetriesExceeded

\* C3 (amended): when each of the maxRetries >= 1 attempts ended in a
\* retryable failure the call fails with the error of the last attempt (the
\* HttpError of the last status, or the network failure); 'Max retries
\* exceeded' is thrown only when maxRetries < 1.
C3_LastErrorSurfaces ==
    /\ (maxRetries >= 1 /\ Len(history) = maxRetries
          /\ \A k \in 1..Len(history) : RetryableAt(k)) =>
          (pc = "thrown" /\ result = ErrorOfAttempt(maxRetries))
    /\ result = MaxRetriesExceeded => maxRetries < 1

C3_Witness ==
    /\ pc = "thrown"
    /\ maxRetries = 3
    /\ Len(history) = 3
    /\ \A k \in 1..3 : RetryableAt(k)
    /\ ServerErrorAt(3)

\* C4: a status >= 500 at attempt k < maxRetries is followed by a backoff of
\* 2^k seconds and then attempt k+1, each backoff twice the one before; the
\* answers 500, 500, 200 with maxRetries = 3 give success after exactly
\* three fetches with backoffs of 2 s and 4 s.
C4_ServerErrorBackoff ==
    /\ \A k \in 1..Len(history) :
          (ServerErrorAt(k) /\ k < maxRetries) => BackedOffAfter(k)
    /\ (maxRetries = 3
          /\ history = <<Response(500), Response(500), Response(200)>>) =>
          /\ pc = "returned"
          /\ result = Response(200)
          /\ calls = 3
          /\ waits = <<2, 4>>
          /\ slept = <<2, 4>>

C4_Witness ==
    /\ maxRetries = 3
    /\ history = <<Response(500), Response(500), Response(200)>>
    /\ pc = "returned"

\* C5: a fetch still unanswered 15 s after the call started is aborted and
\* the call fails with AbortError after that single attempt; an abort is
\* never followed by a backoff or a further attempt.
C5_AbortIsFinal ==
    /\ (pc = "fetching" /\ calls = 1) => (timerArmed /\ now <= TIMEOUT)
    /\ \A k \in 1..Len(history) :
          history[k] = AbortError =>
              /\ aborted
              /\ pc = "thrown"
              /\ result = AbortError
              /\ Len(history) = k
              /\ calls = k
              /\ Len(waits) = k - 1

C5_Witness ==
    /\ pc = "thrown"
    /\ result = AbortError
    /\ maxRetries >= 2
    /\ calls = 1
    /\ now = TIMEOUT

\* C6: a network failure (not an abort) at attempt k < maxRetries is
\* followed by a backoff of 2^k seconds and then attempt k+1; the call
\* fails on a network failure only at attempt maxRetries.
C6_NetworkFailureRetried ==
    /\ \A k \in 1..Len(history) :
          (history[k] = NetworkFailure /\ k < maxRetries) => BackedOffAfter(k)
    /\ (pc = "thrown" /\ result = NetworkFailure) =>
          /\ Len(history) = maxRetries
          /\ calls = maxRetries
          /\ history[maxRetries] = NetworkFailure

C6_Witness ==
    /\ pc = "thrown"
    /\ result = NetworkFailure
    /\ maxRetries = 3
    /\ \A k \in 1..3 : history[k] = NetworkFailure
    /\ slept = <<2, 4>>

\* C7: fetch is called at most maxRetries times; only a response with a
\* success status is returned; a success status ends the call at once, and
\* neither it nor the last attempt is followed by a fetch or a backoff.
C7_BoundedAndImmediate ==
    /\ calls <= maxRetries
    /\ pc = "returned" =>
          /\ result.kind = "Response"
          /\ ResponseOk(result.status)
          /\ history[Len(history)] = result
    /\ \A k \in 1..Len(history) :
          (history[k].kind = "Response" /\ ResponseOk(history[k].status)) =>
              /\ pc = "returned"
              /\ result = history[k]
              /\ Len(history) = k
              /\ calls = k
              /\ Len(waits) = k - 1
    /\ (maxRetries >= 1 /\ Len(history) = maxRetries) =>
          /\ pc \in {"returned", "thrown"}
          /\ calls = maxRetries
          /\ Len(waits) = maxRetries - 1

C7_Witness ==
    /\ pc = "returned"
    /\ maxRetries = 3
    /\ calls = 2
    /\ history = <<NetworkFailure, Response(200)>>

\* ========================================================================
\* Properties of the Blog page (checked under Spec)
\* ========================================================================
\* what loadAll() returns from the cache at this moment, if it is served
\* from the cache
CachedList == GetCachedData(cache, PostsKey, clock)

\* C8: once delete(id) has been confirmed by the server, the article is
\* absent from the in-memory list and from what loadAll() returns, in every
\* interleaving with list fetches that were in flight at that time.
C8_DeletedStaysAbsent ==
    \A id \in confirmedDeleted :
        /\ id \notin IdsOf(posts)
        /\ CachedList.found => id \notin IdsOf(CachedList.data)

\* C9: when delete(id) fails, the re-run of loadAll() issues a request to
\* the list endpoint whatever the cache holds, so that once it has
\* completed the in-memory list is the list of the server.
C9_FailedDeleteRefetches ==
    /\ resync # "cached"
    /\ (resync = "requested" /\ tasks = EmptyBag /\ error = NoError) =>
           posts = ListOf(server)

\* C10: no operation fails silently: once a failed operation and the
\* recovery it started have run to completion, the error state holds the
\* message of that failure until the user dismisses it or starts another
\* operation.
C10_FailureIsReported ==
    (failure # NoError /\ tasks = EmptyBag) => error = failure

\* C11: after the component was unmounted, no completing handler updates
\* the list, error, loading or retrying state.
C11_UnmountedViewUntouched ==
    [][unmounted => UNCHANGED <<posts, loading, error, retrying>>]_vars

\* ---- steps of Spec, as the properties below refer to them ----------------
\* the step sends exactly one new request, made by a handler invocation x
\* that satisfies want
SendsOne(want(_)) ==
    \E x \in BagToSet(tasks') :
        /\ tasks' = tasks (+) SetToBag({x})
        /\ x.net = "sent" /\ x.attempt = 1
        /\ want(x)

\* the outcomes that end an attempt in failure
FailedOutcomes ==
    {NetworkFailure, AbortError} \cup {Response(s) : s \in ErrorStatuses}

\* the step is the attempt of t ending with out, and fetchWithRetry throws
FailsWith(t, out) ==
    /\ Rethrown(t.attempt, DEFAULT_MAX_RETRIES, out)
    /\ CASE out = NetworkFailure -> NetFail(t)
         [] out = AbortError -> Abort(t)
         [] OTHER -> ServerError(t, out.status)

\* the request of x goes to the list endpoint, to the endpoint of post id
ToListEndpoint(x) == Request(x) = [method |-> "GET", id |-> NoId]
ToPostEndpoint(id, x) == id # NoId /\ Request(x) = [method |-> "GET", id |-> id]

\* the step is loadAll() called while the entry of 'posts' is fresh or not
LoadAllServed(call) ==
    call =>
        IF IsFresh(cache, PostsKey, clock)
        THEN /\ tasks' = tasks
             /\ cache' = cache
             /\ posts' = cache[PostsKey].data
        ELSE /\ cache' = cache
             /\ SendsOne(ToListEndpoint)

\* C14: loadAll() and loadOne(id) return the cached payload without a
\* request while the entry of their key is younger than the TTL; otherwise
\* they make exactly one request and, on success, store its result under
\* that same key and deliver it to the view; loadOne(a) neither returns nor
\* overwrites the entry of another id.
C14_CacheThenFetch ==
    [][/\ LoadAllServed(Mount)
       /\ LoadAllServed(HandleRetry)
       /\ \A id \in Ids :
              HandleEditPost(id) =>
                  IF IsFresh(cache, PostKey(id), clock)
                  THEN /\ tasks' = tasks
                       /\ cache' = cache
                       /\ cache[PostKey(id)].data = <<id>>
                       /\ editingPost' = id
                  ELSE /\ cache' = cache
                       /\ SendsOne(LAMBDA x : ToPostEndpoint(id, x))
       /\ \A t \in Pending :
              (DeliverOk(t) /\ (IsListRequest(t) \/ t.op = "edit")) =>
                  LET key == IF IsListRequest(t) THEN PostsKey
                             ELSE PostKey(t.id)
                  IN /\ DOMAIN cache' = DOMAIN cache \cup {key}
                     /\ cache'[key] = [data |-> t.body, timestamp |-> clock]
                     /\ \A k \in DOMAIN cache \ {key} : cache'[k] = cache[k]
                     /\ IF IsListRequest(t)
                        THEN posts' = t.body
                        ELSE t.body = <<t.id>> /\ editingPost' = t.id]_vars

\* both articles were opened in the editor and each has its own entry
C14_Witness ==
    /\ currentView = "editor"
    /\ editingPost = 2
    /\ IsFresh(cache, PostsKey, clock)
    /\ IsFresh(cache, PostKey(1), clock) /\ cache[PostKey(1)].data = <<1>>
    /\ IsFresh(cache, PostKey(2), clock) /\ cache[PostKey(2)].data = <<2>>

\* C15: when loadAll() fails, the in-memory list and the cache are left as
\* they were and the error state is set to the message of the failure.
C15_FailedLoadKeepsList ==
    [][\A t \in Pending, out \in FailedOutcomes :
           (IsListRequest(t) /\ FailsWith(t, out)) =>
               /\ posts' = posts
               /\ cache' = cache
               /\ error' = Message(ErrorOf(out))]_vars

\* the step is the attempt of t ending in some failure
AttemptFails(t) ==
    \/ NetFail(t)
    \/ Abort(t)
    \/ \E s \in ErrorStatuses : ServerError(t, s)

\* the step ends the handler invocation t with a thrown error
Fails(t) == \E out \in FailedOutcomes : FailsWith(t, out)

\* the step removes article id from the in-memory list
Removes(id) == id \in IdsOf(posts) /\ id \notin IdsOf(posts')

\* the list after the step is what loadAll() delivers after it
IsLoadedList ==
    IsFresh(cache', PostsKey, clock') /\ posts' = cache'[PostsKey].data

\* C16: delete(id) removes the article from the in-memory list only after
\* the server has answered the DELETE with success: not when the request is
\* sent, not when the dialog is declined, not when the request fails.
C16_DeleteConfirmThenApply ==
    [][/\ \A id \in Ids, confirmed \in BOOLEAN :
              HandleDeletePost(id, confirmed) => posts' = posts
       /\ \A t \in Pending :
              t.op = "delete" =>
                  /\ (ServerOk(t) \/ WakeTask(t)) => posts' = posts
                  /\ AttemptFails(t) => (posts' = posts \/ IsLoadedList)
                  /\ DeliverOk(t) => t.id \notin IdsOf(posts')
       /\ \A id \in Ids :
              Removes(id) =>
                  \/ \E t \in Pending :
                         /\ t.op = "delete" /\ t.id = id
                         /\ t.net = "answered"
                         /\ DeliverOk(t)
                  \/ IsLoadedList
                  \/ \E t \in Pending :
                         IsListRequest(t) /\ Fails(t) /\ posts' = <<>>]_vars

\* the server has deleted the article, the response is on its way and the
\* article is still in the list
C16_Witness ==
    \E t \in Pending :
        /\ t.op = "delete"
        /\ t.net = "answered"
        /\ t.id \notin server
        /\ t.id \in IdsOf(posts)

\* C17: when delete(id) completes with success, get('posts') and
\* get('post-<id>') both miss, whatever they held before; when an attempt
\* of delete(id) fails, no entry is invalidated.
C17_DeleteInvalidates ==
    [][\A t \in Pending :
           t.op = "delete" =>
               /\ DeliverOk(t) =>
                      /\ ~GetCachedData(cache', PostsKey, clock').found
                      /\ ~GetCachedData(cache', PostKey(t.id), clock').found
               /\ AttemptFails(t) => cache' = cache]_vars

\* the success response of a DELETE is on its way while both entries are
\* fresh
C17_Witness ==
    \E t \in Pending :
        /\ t.op = "delete"
        /\ t.net = "answered"
        /\ IsFresh(cache, PostsKey, clock)
        /\ IsFresh(cache, PostKey(t.id), clock)

\* the handler invocation x is the fetchPosts() awaited by save/publish op
IsReloadOf(op, id, x) ==
    x.op = op /\ x.id = id /\ x.stage = "reload" /\ x.net = "sent"

\* C18: save/publish sends one mutation request (POST /posts without
\* identifier, PUT /posts/{id} with one), on success invalidates 'posts'
\* (and 'post-<id>' for an update), then re-runs loadAll(), and switches to
\* the listing only when that loadAll() has completed; it never switches to
\* the listing when the mutation failed.
C18_SaveStepsInOrder ==
    [][/\ \A op \in {"save", "publish"} :
              HandleSaveOrPublish(op) =>
                  /\ SendsOne(LAMBDA x : x.op = op /\ x.stage = "main"
                                             /\ x.id = editingPost)
                  /\ currentView' = currentView
                  /\ cache' = cache
       /\ \A t \in Pending :
              (t.op \in {"save", "publish"} /\ t.stage = "main") =>
                  /\ ServerOk(t) =>
                         IF t.id = NoId
                         THEN /\ Request(t) = [method |-> "POST", id |-> NoId]
                              /\ server' = server \cup {nextId}
                         ELSE /\ Request(t) = [method |-> "PUT", id |-> t.id]
                              /\ server' = server
                  /\ DeliverOk(t) =>
                         /\ PostsKey \notin DOMAIN cache'
                         /\ t.id # NoId => PostKey(t.id) \notin DOMAIN cache'
                         /\ \E x \in BagToSet(tasks') :
                                /\ IsReloadOf(t.op, t.id, x)
                                /\ tasks' = (tasks (-) SetToBag({t}))
                                                (+) SetToBag({x})
                         /\ currentView' = currentView
                  /\ (ServerOk(t) \/ WakeTask(t) \/ AttemptFails(t)) =>
                         /\ currentView' = currentView
                         /\ \A x \in BagToSet(tasks') : x.stage = "reload" =>
                                x \in Pending
       /\ \A t \in Pending :
              (t.stage = "reload" /\ (DeliverOk(t) \/ Fails(t))) =>
                  currentView' = "dashboard"
       /\ (currentView = "editor" /\ currentView' = "dashboard") =>
              \/ OnBack
              \/ \E t \in Pending :
                     t.stage = "reload" /\ (DeliverOk(t) \/ Fails(t))]_vars

\* an update was confirmed, its loadAll() is pending and the view is still
\* the editor
C18_Witness ==
    /\ currentView = "editor"
    /\ PostsKey \notin DOMAIN cache
    /\ \E x \in Pending : x.stage = "reload" /\ x.id # NoId

\* C19: when save/publish fails, the view and the editor's post stay as they
\* are, the error state is the failure message, the list and the cache are
\* unchanged and no loadAll() is run.
C19_FailedSaveKeepsEditor ==
    [][\A t \in Pending, out \in FailedOutcomes :
           (t.op \in {"save", "publish"} /\ t.stage = "main"
               /\ FailsWith(t, out)) =>
               /\ currentView' = currentView
               /\ editingPost' = editingPost
               /\ error' = Message(ErrorOf(out))
               /\ posts' = posts
               /\ cache' = cache
               /\ tasks' = tasks (-) SetToBag({t})]_vars

\* the only operation started was the save of a new article; the server
\* created it, the save failed all the same, and the editor is still open
\* over the loaded list
C19_Witness ==
    /\ mounted
    /\ ops = 1
    /\ tasks = EmptyBag
    /\ currentView = "editor"
    /\ editingPost = NoId
    /\ error # NoError
    /\ posts = <<1>>
    /\ server = {1, 2}
    /\ IsFresh(cache, PostsKey, clock)

\* C20: an entry of the cache is written only with the body of a success
\* response, under 'posts' from the list endpoint and under 'post-<id>' from
\* the single-post endpoint for that id; no failed attempt of any operation
\* creates or overwrites an entry.
C20_CacheOnlyFromSuccess ==
    [][/\ \A k \in DOMAIN cache' :
              (k \notin DOMAIN cache \/ cache'[k] # cache[k]) =>
                  \E t \in Pending :
                      /\ t.net = "answered"
                      /\ DeliverOk(t)
                      /\ cache'[k].data = t.body
                      /\ \/ ToListEndpoint(t) /\ k = PostsKey
                         \/ ToPostEndpoint(t.id, t) /\ k = PostKey(t.id)
       /\ \A t \in Pending :
              ServerOk(t) =>
                  \E x \in BagToSet(tasks') :
                      /\ x = [t EXCEPT !.net = "answered", !.body = x.body]
                      /\ ToListEndpoint(t) => x.body = ListOf(server)
                      /\ ToPostEndpoint(t.id, t) =>
                             x.body = <<t.id>> /\ t.id \in server
       /\ \A i \in Ids :
              PostKey(i) \in DOMAIN cache' => cache'[PostKey(i)].data = <<i>>]_vars

\* a retry failed after the entries had expired: both entries are still the
\* bodies that were fetched
C20_Witness ==
    /\ tasks = EmptyBag
    /\ failure # NoError
    /\ DOMAIN cache = {PostsKey, PostKey(1)}
    /\ ~IsFresh(cache, PostsKey, clock)
    /\ cache[PostsKey].data = <<1>>
    /\ cache[PostKey(1)].data = <<1>>

\* the handler invocation t is the load started by retry()
IsRetryLoad(t) == t.op = "load" /\ t.showRetry

\* C21: while the load started by retry() is pending the retrying indicator
\* is true and that load has not set the loading indicator; when it
\* completes, successfully or not, the retrying indicator is false again.
C21_RetryingMode ==
    [][/\ (mounted' /\ \E t \in BagToSet(tasks') : IsRetryLoad(t)) => retrying'
       /\ HandleRetry => (loading' => loading)
       /\ \A t \in Pending :
              (IsRetryLoad(t) /\ (DeliverOk(t) \/ Fails(t))) => ~retrying']_vars

\* C27: whenever a loadAll() started by the view is in flight, the loading
\* indicator or the retrying indicator is true, also when loads overlap.
C27_IndicatorWhileLoading ==
    (mounted /\ \E t \in Pending : IsListRequest(t)) => (loading \/ retrying)

\* C28: whenever the error state is non-null, the view that is rendered
\* shows the message with its dismiss control, the editor after a failed
\* save or publish included.
C28_ErrorIsShown ==
    (mounted /\ error # NoError) => ErrorShown

\* the step ends the load that initialFetch awaits with a thrown error
InitialLoadFails ==
    \E t \in Pending : t.stage = "effect" /\ Fails(t)

\* C25: if the initial load fails, the page retries loadAll() once more
\* after 2 s, provided it is still mounted: the failure leaves the 2 s timer
\* armed.
C25_InitialLoadRetried ==
    [][(mounted /\ InitialLoadFails) =>
           \E x \in BagToSet(tasks') : x.net = "delayed"]_vars

\* C26: after a save or publish succeeded, the 'posts' cache entry comes from
\* a list response produced after the mutation: it holds the saved article
\* for as long as the server holds it, whatever list requests were in flight
\* when the mutation was confirmed.
C26_SavedIsListed ==
    \A id \in confirmedSaved \cap server :
        CachedList.found => id \in IdsOf(CachedList.data)

\* ========================================================================
\* Properties of the filters (checked under SpecFilter)
\* ========================================================================
\* the step is a change of the search text, the category or the status
FilterChange ==
    \/ \E q \in Queries : SetSearchQuery(q)
    \/ \E c \in CategoryItems : SetCategoryFilter(c)
    \/ \E st \in StatusItems : SetStatusFilter(st)

\* C22: changing the search text, the category filter or the status filter
\* never triggers network activity: the step issues no request and starts
\* no loadAll(), and it leaves the in-memory list, the cache and the
\* error/loading/retrying state unchanged.
C22_FilterChangeIsLocal ==
    [][FilterChange =>
           UNCHANGED <<tasks, posts, cache, error, loading, retrying,
                       server, autoRetries>>]_vars

\* the three filters were changed over a loaded list of two articles, and
\* the filtered view is no longer the whole list
C22_Witness ==
    /\ searchQuery # <<>>
    /\ categoryFilter # All
    /\ statusFilter # "all"
    /\ Len(posts) = MaxPosts
    /\ Len(FilteredPosts) = 1

\* str contains q, letter case ignored
ContainsCI(str, q) ==
    \E off \in 0..(Len(str) - Len(q)) :
        \A j \in 1..Len(q) : LowerChar(str[off + j]) = LowerChar(q[j])

\* a and b are the same string, letter case ignored
EqualCI(a, b) ==
    Len(a) = Len(b) /\ \A j \in 1..Len(a) : LowerChar(a[j]) = LowerChar(b[j])

\* the names of the tags of the article the server holds under id
TagNames(id) ==
    IF catalog[id].tags = None THEN <<>> ELSE catalog[id].tags[1]

\* the category of that article: its first tag, or 'General' without tags
CategoryOf(id) ==
    IF TagNames(id) = <<>> THEN General ELSE TagNames(id)[1]

\* the article id is to be shown for search text q, category c, status st
Wanted(id, q, c, st) ==
    /\ ContainsCI(catalog[id].title, q) \/ ContainsCI(catalog[id].excerpt, q)
    /\ c = All \/ EqualCI(CategoryOf(id), c)
    /\ st = "all" \/ catalog[id].status = st

\* the categories a user can ask for, in the letter case of the tag or not
CategoryChoices == {All, General, <<"t">>, <<"n">>}

\* C23: for every loaded list and every choice of search text q, category c
\* and status s, the filtered view is exactly the sub-list, in list order,
\* of the articles whose title or excerpt contains q case-insensitively,
\* whose category equals c case-insensitively or c is 'all', and whose
\* status equals s or s is 'all'.
C23_FilteredViewExact ==
    /\ \A q \in Queries, c \in CategoryChoices, st \in StatusItems :
           FilteredWith(posts, q, c, st) =
               SelectSeq(posts, LAMBDA id : Wanted(id, q, c, st))
    /\ FilteredPosts =
           SelectSeq(posts, LAMBDA id : Wanted(id, searchQuery,
                                               categoryFilter, statusFilter))

\* a search text in another letter case than the article, with the status
\* filter set, keeps the second of two loaded articles only
C23_Witness ==
    /\ Len(posts) = MaxPosts
    /\ searchQuery = <<"d", "X">>
    /\ statusFilter = "published"
    /\ FilteredPosts = <<posts[MaxPosts]>>

\* C30: each category offered by the category selector matches at least
\* one article: selecting it with empty search text and status 'all' yields
\* a non-empty filtered view, and every article whose tags include that
\* category is in the view.
C30_OfferedCategoryMatches ==
    \A cat \in UniqueCategories :
        LET view == FilteredWith(posts, <<>>, ToLowerCase(cat), "all")
        IN /\ view # <<>>
           /\ \A i \in 1..Len(posts) :
                  cat \in IdsOf(TagNames(posts[i])) => posts[i] \in IdsOf(view)

\* ========================================================================
\* Properties of the derived fields (checked under SpecDerive)
\* ========================================================================
\* the characters that separate words
Blank == {" ", "\n"}

\* the number of words of str: its maximal runs of non-blank characters
WordCount(str) ==
    Cardinality({i \in 1..Len(str) :
                    str[i] \notin Blank /\ (i = 1 \/ str[i - 1] \in Blank)})

\* the text of the body of the article under id, empty when it has none
BodyText(id) ==
    IF catalog[id].body = None THEN <<>> ELSE catalog[id].body[1]

\* the article under id has a published_at
HasPublishedAt(id) ==
    catalog[id].published_at # None /\ catalog[id].published_at[1] # ""

\* C24: for every article returned by a list fetch, the derived reading
\* time is the word count of the body divided by 200 and rounded up, also
\* for an empty or missing body; the derived category is the name of the
\* first tag, or 'General' when the tag list is empty or missing; the
\* derived publish date is 'Draft' exactly when there is no published_at.
C24_DerivedFields ==
    \A i \in 1..Len(posts) :
        LET id == posts[i]
        IN /\ Article(id).readingTime =
                  ToString(Ceil(WordCount(BodyText(id)), WORDS_PER_MINUTE))
                      \o " min"
           /\ Article(id).category = CategoryOf(id)
           /\ (Article(id).publishedAt = Draft) <=> ~HasPublishedAt(id)

\* ========================================================================
\* Termination of the automatic reloads (checked under SpecLive)
\* ========================================================================
\* no request is pending and no load indicator is set
Quiescent == tasks = EmptyBag /\ ~loading /\ ~retrying

\* C29: the automatic reloads terminate: the effect that re-runs loadAll()
\* when the length of the list changes starts only finitely many loads, so
\* once the user starts no further operation the page reaches a state with
\* no pending request, loading = false and retrying = false, and stays there.
C29_ReloadsTerminate == <>[]Quiescent

\* the list went from empty to loaded, so the effect ran a second time, and
\* the page is at rest
C29_Witness ==
    /\ mounted
    /\ ops = MaxLiveOps
    /\ posts # <<>>
    /\ Quiescent

\* ========================================================================
\* Properties of ApiService.cache (checked under SpecCache)
\* ========================================================================
\* what get(key) has to return according to the record of the last set or
\* delete of the key: a hit exactly when the key was set less than the TTL ago
ExpectedHit(key, t) ==
    written[key].state = "set" /\ t - written[key].at < CACHE_DURATION

\* C12: get(key) returns the payload of the latest set(key, payload) while
\* now - timestamp < TTL, and a miss when now - timestamp >= TTL or when the
\* key holds no entry; a later set replaces the payload and restarts the TTL.
C12_GetReturnsLatestSet ==
    /\ \A key \in CacheKeys :
           LET got == GetCachedData(cache, key, clock)
           IN IF ExpectedHit(key, clock)
              THEN got.found /\ got.data = written[key].data
              ELSE ~got.found
    /\ lastOp.op = "get" =>
           IF ExpectedHit(lastOp.key, clock)
           THEN lastOp.found /\ lastOp.data = written[lastOp.key].data
           ELSE ~lastOp.found

\* get(key) misses at the instant the age of the entry equals the TTL
C12_Witness ==
    /\ lastOp.op = "get"
    /\ written[lastOp.key].state = "set"
    /\ clock - written[lastOp.key].at = CACHE_DURATION
    /\ ~lastOp.found

\* C13: invalidate(key) followed by get(key) with no set in between misses,
\* whatever the entry was before; invalidating an absent key changes
\* nothing, and invalidating a key changes what get returns for no other key.
C13_InvalidateThenMiss ==
    [][/\ \A key \in CacheKeys :
            written'[key].state = "deleted" =>
                ~GetCachedData(cache', key, clock').found
       /\ (lastOp'.op = "get" /\ written'[lastOp'.key].state = "deleted") =>
              ~lastOp'.found
       /\ lastOp'.op = "invalidate" =>
              /\ lastOp'.key \notin DOMAIN cache => cache' = cache
              /\ \A key \in CacheKeys \ {lastOp'.key} :
                     GetCachedData(cache', key, clock') =
                         GetCachedData(cache, key, clock)]_vars

\* a get misses on a key that was invalidated while another key still hits
C13_Witness ==
    /\ lastOp.op = "get"
    /\ written[lastOp.key].state = "deleted"
    /\ ~lastOp.found
    /\ \E key \in CacheKeys \ {lastOp.key} :
           GetCachedData(cache, key, clock).found

====
